---- MODULE Spec2Model ----
(***************************************************************************)
(* A model of the two entry points of the e-commerce batch pipeline:       *)
(*   load_data.py  - the loader: five CSV files -> five SQLite tables      *)
(*   run_query.py  - the reporter: one SQL query -> CSV + console report   *)
(*                                                                         *)
(* Text (column names, cell contents) is a sequence of tokens: a token is  *)
(* either the blank " " or a word.  str.strip removes blanks at both ends, *)
(* str.lower maps a word to its lower-case form.  A cell is a record       *)
(* [type, val]: type "str" (text as read from the CSV), "num" (a parsed    *)
(* number), "date" (a parsed timestamp) or "null" (NaN / NaT / NULL).      *)
(***************************************************************************)
EXTENDS Integers, Sequences, FiniteSets, TLC

\* ------------------------------------------------------------------ bounds
MaxRuns == 2
MaxFaults == 1
MaxCustomers == 11

\* --------------------------------------------------------- program constants
TopN == 10

\* ------------------------------------------------------------ text helpers
Range(s) == {s[i] : i \in DOMAIN s}

RECURSIVE LStrip(_)
LStrip(s) == IF s # <<>> /\ Head(s) = " " THEN LStrip(Tail(s)) ELSE s

RECURSIVE RStrip(_)
RStrip(s) == IF s # <<>> /\ s[Len(s)] = " " THEN RStrip(SubSeq(s, 1, Len(s) - 1)) ELSE s

\* str.strip()
Strip(s) == RStrip(LStrip(s))

\* str.lower() on one word
LowerWord(w) ==
    CASE w = "Customer_ID" -> "customer_id"
      [] w = "Product_ID"  -> "product_id"
      [] w = "Order_ID"    -> "order_id"
      [] w = "Item_ID"     -> "item_id"
      [] w = "Payment_ID"  -> "payment_id"
      [] OTHER             -> w

\* str.lower()
Lower(s) == [i \in DOMAIN s |-> LowerWord(s[i])]

\* df.columns.str.lower().str.strip() on one column name
NormalizeName(s) == Strip(Lower(s))

Null == [type |-> "null", val |-> <<>>]
StrCell(s) == [type |-> "str", val |-> s]

\* ------------------------------------------------------------------ tables
Tables == <<"customers", "products", "orders", "order_items", "payments">>
TableSet == Range(Tables)

Name(w) == <<w>>

\* csv_files: the required columns of each file
csv_files(t) ==
    CASE t = "customers"   -> <<Name("customer_id"), Name("full_name"), Name("email"),
                                Name("phone"), Name("city"), Name("created_at")>>
      [] t = "products"    -> <<Name("product_id"), Name("product_name"), Name("category"),
                                Name("price"), Name("stock_qty")>>
      [] t = "orders"      -> <<Name("order_id"), Name("customer_id"), Name("order_date"),
                                Name("status"), Name("total_amount")>>
      [] t = "order_items" -> <<Name("item_id"), Name("order_id"), Name("product_id"),
                                Name("quantity"), Name("unit_price")>>
      [] t = "payments"    -> <<Name("payment_id"), Name("order_id"), Name("payment_method"),
                                Name("payment_date"), Name("amount")>>

\* the date columns converted for each table
date_columns(t) ==
    CASE t = "customers" -> <<Name("created_at")>>
      [] t = "orders"    -> <<Name("order_date")>>
      [] t = "payments"  -> <<Name("payment_date")>>
      [] OTHER           -> <<>>

\* numeric_mapping: the numeric columns coerced for each table
numeric_mapping(t) ==
    CASE t = "customers"   -> <<Name("customer_id"), Name("phone")>>
      [] t = "products"    -> <<Name("product_id"), Name("price"), Name("stock_qty")>>
      [] t = "orders"      -> <<Name("order_id"), Name("customer_id"), Name("total_amount")>>
      [] t = "order_items" -> <<Name("item_id"), Name("order_id"), Name("product_id"),
                                Name("quantity"), Name("unit_price")>>
      [] t = "payments"    -> <<Name("payment_id"), Name("order_id"), Name("amount")>>

\* -------------------------------------------------------- value conversion
Numerals == {"1", "2"}
ValidDates == {"2024-01-01"}

IsNumeric(c) == c.type = "num" \/ (c.type = "str" /\ Len(c.val) = 1 /\ c.val[1] \in Numerals)
IsDate(c) == c.type = "date" \/ (c.type = "str" /\ Len(c.val) = 1 /\ c.val[1] \in ValidDates)

\* pd.to_numeric(errors='ignore'): an unparseable value is left as it is
to_numeric_ignore(c) == IF IsNumeric(c) THEN [type |-> "num", val |-> c.val] ELSE c

\* pd.to_numeric(errors='coerce') on one cell
to_numeric(c) == IF IsNumeric(c) THEN [type |-> "num", val |-> c.val] ELSE Null

\* pd.to_datetime(errors='coerce') on one cell
to_datetime(c) == IF IsDate(c) THEN [type |-> "date", val |-> c.val] ELSE Null

\* ------------------------------------------------------------- data frames
\* A data frame: [columns: sequence of names, rows: sequence of rows], a row a
\* sequence of cells, one per column.
Positions(df, col) == {i \in DOMAIN df.columns : df.columns[i] = col}

\* df[col] = pd.to_datetime(df[col]) or pd.to_numeric(df[col]), by kind; with
\* a duplicated name df[col] is a frame, not a series, the conversion raises
\* and the except clause leaves df unchanged.
ConvertColumn(df, col, kind) ==
    IF Cardinality(Positions(df, col)) # 1 THEN df
    ELSE [df EXCEPT !.rows =
            [r \in DOMAIN df.rows |->
                [i \in DOMAIN df.rows[r] |->
                    IF i \notin Positions(df, col) THEN df.rows[r][i]
                    ELSE IF kind = "date" THEN to_datetime(df.rows[r][i])
                    ELSE to_numeric(df.rows[r][i])]]]

\* a validation that never rejects
validate_columns_skipped(df, required_columns) == TRUE

MissingColumns(df, required_columns) == Range(required_columns) \ Range(df.columns)

validate_columns(df, required_columns) == MissingColumns(df, required_columns) = {}

StripCell(c) == IF c.type = "str" THEN StrCell(Strip(c.val)) ELSE c

clean_dataframe(df) ==
    [columns |-> [i \in DOMAIN df.columns |-> NormalizeName(df.columns[i])],
     rows |-> [r \in DOMAIN df.rows |->
                 [i \in DOMAIN df.rows[r] |-> StripCell(df.rows[r][i])]]]

RECURSIVE convert_dates(_, _)
convert_dates(df, cols) ==
    IF cols = <<>> THEN df
    ELSE convert_dates(ConvertColumn(df, Head(cols), "date"), Tail(cols))

RECURSIVE coerce_numeric(_, _)
coerce_numeric(df, cols) ==
    IF cols = <<>> THEN df
    ELSE coerce_numeric(ConvertColumn(df, Head(cols), "numeric"), Tail(cols))

\* the loop body followed by dropna on the first required column
LoadFrame_dropna(t, df) ==
    LET out == coerce_numeric(convert_dates(clean_dataframe(df), date_columns(t)),
                              numeric_mapping(t))
        keep(row) == \A i \in Positions(out, csv_files(t)[1]) : row[i] # Null
    IN  [out EXCEPT !.rows = SelectSeq(out.rows, keep)]

\* the body of the loop of load_csv_files after validation
LoadFrame(t, df) ==
    coerce_numeric(convert_dates(clean_dataframe(df), date_columns(t)), numeric_mapping(t))

\* ------------------------------------------------ the CSV files of a run
\* What pd.read_csv finds for table t is described by a file descriptor
\* [exists, hdr, rws]: hdr says how the header spells the columns ("garbled":
\* the file cannot be parsed at all), rws which rows the file holds.
MixedWord(w) ==
    CASE w = "customer_id" -> "Customer_ID"
      [] w = "product_id"  -> "Product_ID"
      [] w = "order_id"    -> "Order_ID"
      [] w = "item_id"     -> "Item_ID"
      [] w = "payment_id"  -> "Payment_ID"
      [] OTHER             -> w

IdColumn(t) == csv_files(t)[1]

HeaderOf(t, hdr) ==
    LET req == csv_files(t) IN
    CASE hdr = "exact" -> req
      [] hdr = "case"  -> << <<" ", MixedWord(IdColumn(t)[1]), " ">> >> \o Tail(req)
      [] hdr = "lack"  -> SubSeq(req, 1, Len(req) - 1)
      [] hdr = "dup"   -> req \o << <<MixedWord(IdColumn(t)[1])>> >>

RowOf(t, cols, id, date, text) ==
    [i \in DOMAIN cols |->
        LET n == NormalizeName(cols[i]) IN
        IF n = IdColumn(t) THEN StrCell(id)
        ELSE IF n \in Range(date_columns(t)) THEN StrCell(date)
        ELSE IF n \in Range(numeric_mapping(t)) THEN StrCell(<<"1">>)
        ELSE StrCell(text)]

RowsOf(t, cols, rws) ==
    LET good == RowOf(t, cols, <<"1">>, <<"2024-01-01">>, <<"A">>) IN
    CASE rws = "one"     -> <<good>>
      [] rws = "two"     -> <<good, RowOf(t, cols, <<"2">>, <<"2024-01-01">>, <<"B">>)>>
      [] rws = "badid"   -> <<good, RowOf(t, cols, <<"abc">>, <<"2024-01-01">>, <<"B">>)>>
      [] rws = "baddate" -> <<good, RowOf(t, cols, <<"2">>, <<"notadate">>, <<"B">>)>>
      [] rws = "padded"  -> <<RowOf(t, cols, <<"1">>, <<"2024-01-01">>, <<" ", "A", " ">>)>>

\* the fields of the file as written: the header line and the rows, all text
CsvText(t, d) == [columns |-> HeaderOf(t, d.hdr), rows |-> RowsOf(t, HeaderOf(t, d.hdr), d.rws)]

\* the file is empty or cannot be parsed: pd.read_csv raises EmptyDataError /
\* ParserError
ReadCsvRaises(d) == d.exists /\ d.hdr = "garbled"

\* a field that pd.read_csv reads as a number
IsNumberText(c) == c.type = "str" /\ Len(c.val) = 1 /\ c.val[1] \in Numerals

\* pd.read_csv(file_path): the dtype of a column is inferred from its fields;
\* a column whose every field is a number is a numeric column, any other
\* column (dates included: no parse_dates is given) is an object column of text
read_csv(t, d) ==
    LET text == CsvText(t, d)
        numeric(c) == \A r \in DOMAIN text.rows : IsNumberText(text.rows[r][c])
    IN  [columns |-> text.columns,
         rows |-> [r \in DOMAIN text.rows |->
                     [c \in DOMAIN text.rows[r] |->
                         IF numeric(c) THEN [type |-> "num", val |-> text.rows[r][c].val]
                         ELSE text.rows[r][c]]]]

RowKinds(t) ==
    {"one", "two", "badid", "padded"} \cup (IF date_columns(t) # <<>> THEN {"baddate"} ELSE {})

Descriptors(t) ==
    {[exists |-> FALSE, hdr |-> "exact", rws |-> "one"]}
    \cup {[exists |-> TRUE, hdr |-> "garbled", rws |-> "one"]}
    \cup {[exists |-> TRUE, hdr |-> h, rws |-> r] :
            h \in {"exact", "case", "lack", "dup"}, r \in RowKinds(t)}

\* how far a file is from the nominal one (exact header, one good row)
Cost(d) ==
    IF ~d.exists THEN 1
    ELSE (IF d.hdr = "exact" THEN 0 ELSE 1) + (IF d.rws = "one" THEN 0 ELSE 1)

\* --------------------------------------------------------------- database
NoTable == [exists |-> FALSE, columns |-> <<>>, rows |-> <<>>]
EmptyDb == [t \in TableSet |-> NoTable]

HasDuplicates(s) == \E i, j \in DOMAIN s : i # j /\ s[i] = s[j]

\* to_sql raises: an I/O failure, or CREATE TABLE refuses a duplicated column
ToSqlRaises(df, fail) == fail # "none" \/ HasDuplicates(df.columns)

\* if_exists='append': the rows are added to those of the existing table
to_sql_append(old, df, fail) ==
    IF fail = "create" \/ HasDuplicates(df.columns) THEN NoTable
    ELSE IF fail = "insert" THEN [exists |-> TRUE, columns |-> df.columns, rows |-> old.rows]
    ELSE [exists |-> TRUE, columns |-> df.columns, rows |-> old.rows \o df.rows]

\* df.to_sql(table_name, conn, if_exists='replace', index=False): the table
\* as it is in the database file when the call returns or raises.  pandas
\* drops an existing table, creates the new one and inserts the rows, and it
\* commits the creation and the insertion itself; a failed insertion is
\* rolled back by pandas, the drop and the creation before it are not.
\* old: the table before the call; fail: "none", or where an I/O failure
\* strikes ("create", "insert").
to_sql(old, df, fail) ==
    IF fail = "create" \/ HasDuplicates(df.columns) THEN NoTable
    ELSE IF fail = "insert" THEN [exists |-> TRUE, columns |-> df.columns, rows |-> <<>>]
    ELSE [exists |-> TRUE, columns |-> df.columns, rows |-> df.rows]

\* ------------------------------------------------------------------ state
VARIABLES
    prog,        \* which entry point runs: "loader" (load_data.py) or "reporter" (run_query.py)
    pc,          \* the position of main
    err,         \* the exception that reached main's handlers ("none" while there is none)
    exit,        \* <<>> while main runs, <<code>> once it has returned
    log,         \* the steps main has started in this run, in order
    runs,        \* the number of runs of the loader started so far
    faults,      \* how many deviations from the nominal environment were drawn so far
    idx,         \* the loop position in csv_files / dataframes
    files,       \* what this run read: [name, exists, readable, df] per CSV file, in order
    dataframes,  \* the frames load_csv_files has built, in the order of Tables
    conn,        \* the sqlite3 connection: "none", "open" or "closed"
    db,          \* the tables as the connection sees them
    disk,        \* the tables committed to the database file
    dbBefore,    \* the committed tables when this run started
    counts,      \* the row counts print_row_counts printed (<<>> before it)
    results_df,  \* the reporter's query result (a sequence of rows)
    query_rows,  \* the rows as the query returned them, before save_to_csv
    out_csv,     \* the content of customer_revenue_output.csv (<<>> while unwritten)
    report       \* what print_formatted_table printed (<<>> before it)

vars == <<prog, pc, err, exit, log, runs, faults, idx, files, dataframes, conn, db, disk,
          dbBefore, counts, results_df, query_rows, out_csv, report>>

loaderVars == <<idx, files, dataframes, db, disk, dbBefore, counts, runs>>
reporterVars == <<results_df, query_rows, out_csv, report>>

Step(name, table) == <<name, table>>

\* a main whose ValueError handler falls through to return 0
main_exit_value_error(e) ==
    IF e = "none" THEN 0
    ELSE IF e = "FileNotFoundError" THEN 1
    ELSE IF e = "ValueError" THEN 0
    ELSE 1

\* the return value of main: 0 when no exception reached it, 1 from every handler
\* (EmptyDataError and ParserError are ValueErrors, DatabaseError and OSError
\* fall to the last handler)
main_exit(e) ==
    IF e = "none" THEN 0
    ELSE IF e = "FileNotFoundError" THEN 1
    ELSE IF e = "ValueError" THEN 1
    ELSE 1

\* an exception e propagates to main, which returns
Raise(e) ==
    /\ err' = e
    /\ exit' = <<main_exit(e)>>
    /\ pc' = "done"

Init ==
    /\ prog \in {"loader", "reporter"}
    /\ pc = IF prog = "loader" THEN "start" ELSE "r_start"
    /\ err = "none"
    /\ exit = <<>>
    /\ log = <<>>
    /\ runs = IF prog = "loader" THEN 1 ELSE 0
    /\ faults = 0
    /\ idx = 1
    /\ files = <<>>
    /\ dataframes = <<>>
    /\ conn = "none"
    /\ db = EmptyDb
    /\ disk = EmptyDb
    /\ dbBefore = EmptyDb
    /\ counts = <<>>
    /\ results_df = <<>>
    /\ query_rows = <<>>
    /\ out_csv = <<>>
    /\ report = <<>>

\* ----------------------------------------------------------------- loader
\* main, lines 183-196: create the database folder, verify the data folder
main_start ==
    /\ prog = "loader" /\ pc = "start"
    /\ log' = Append(log, Step("start", ""))
    /\ \E found \in BOOLEAN :
        /\ (~found) => faults < MaxFaults
        /\ faults' = IF found THEN faults ELSE faults + 1
        /\ IF found
           THEN /\ pc' = "load"
                /\ idx' = 1
                /\ UNCHANGED <<err, exit>>
           ELSE /\ Raise("FileNotFoundError")
                /\ UNCHANGED idx
    /\ UNCHANGED <<prog, runs, files, dataframes, conn, db, disk, dbBefore, counts>>
    /\ UNCHANGED reporterVars

\* one iteration of the loop of load_csv_files
load_csv_files ==
    /\ prog = "loader" /\ pc = "load"
    /\ LET t == Tables[idx] IN
       /\ log' = Append(log, Step("load", t))
       /\ \E d \in Descriptors(t) :
            /\ Cost(d) <= MaxFaults - faults
            /\ faults' = faults + Cost(d)
            /\ LET readable == d.exists /\ ~ReadCsvRaises(d)
                   df == IF readable THEN read_csv(t, d) ELSE [columns |-> <<>>, rows |-> <<>>]
               IN
               /\ files' = Append(files, [name |-> t, exists |-> d.exists,
                                          readable |-> readable, df |-> df])
               /\ IF ~d.exists
                  THEN /\ Raise("FileNotFoundError")
                       /\ UNCHANGED <<idx, dataframes>>
                  ELSE IF ReadCsvRaises(d)
                  THEN /\ Raise("EmptyDataError")
                       /\ UNCHANGED <<idx, dataframes>>
                  ELSE IF ~validate_columns(df, csv_files(t))
                  THEN /\ Raise("ValueError")
                       /\ UNCHANGED <<idx, dataframes>>
                  ELSE /\ dataframes' = Append(dataframes, LoadFrame(t, df))
                       /\ IF idx < Len(Tables)
                          THEN idx' = idx + 1 /\ pc' = "load"
                          ELSE idx' = 1 /\ pc' = "create_database"
                       /\ UNCHANGED <<err, exit>>
    /\ UNCHANGED <<prog, runs, conn, db, disk, dbBefore, counts>>
    /\ UNCHANGED reporterVars

\* sqlite3.connect(db_path)
create_database ==
    /\ prog = "loader" /\ pc = "create_database"
    /\ log' = Append(log, Step("create_database", ""))
    /\ conn' = "open"
    /\ pc' = "insert"
    /\ UNCHANGED <<prog, err, exit, runs, faults, idx, files, dataframes, db, disk,
                   dbBefore, counts>>
    /\ UNCHANGED reporterVars

\* one iteration of the loop of insert_data_to_database
insert_data_to_database ==
    /\ prog = "loader" /\ pc = "insert"
    /\ LET t == Tables[idx] IN
       /\ log' = Append(log, Step("insert", t))
       /\ \E fail \in {"none", "create", "insert"} :
            /\ fail # "none" => faults < MaxFaults
            /\ faults' = IF fail = "none" THEN faults ELSE faults + 1
            /\ db' = [db EXCEPT ![t] = to_sql(db[t], dataframes[idx], fail)]
            /\ disk' = db'
            /\ IF ToSqlRaises(dataframes[idx], fail)
               THEN /\ err' = "DatabaseError"
                    /\ pc' = "rollback"
                    /\ UNCHANGED idx
               ELSE /\ IF idx < Len(dataframes)
                       THEN idx' = idx + 1 /\ pc' = "insert"
                       ELSE idx' = 1 /\ pc' = "commit"
                    /\ UNCHANGED err
    /\ UNCHANGED <<prog, exit, runs, files, dataframes, conn, dbBefore, counts>>
    /\ UNCHANGED reporterVars

\* conn.commit() after the loop
commit ==
    /\ prog = "loader" /\ pc = "commit"
    /\ log' = Append(log, Step("commit", ""))
    /\ disk' = db
    /\ pc' = "row_counts"
    /\ UNCHANGED <<prog, err, exit, runs, faults, idx, files, dataframes, conn, db,
                   dbBefore, counts>>
    /\ UNCHANGED reporterVars

\* the outer except clause: conn.rollback(), then the exception goes on to main
rollback ==
    /\ prog = "loader" /\ pc = "rollback"
    /\ log' = Append(log, Step("rollback", ""))
    /\ db' = disk
    /\ exit' = <<main_exit(err)>>
    /\ pc' = "done"
    /\ UNCHANGED <<prog, err, runs, faults, idx, files, dataframes, conn, disk,
                   dbBefore, counts>>
    /\ UNCHANGED reporterVars

\* SELECT COUNT(*) FROM each table
print_row_counts ==
    /\ prog = "loader" /\ pc = "row_counts"
    /\ log' = Append(log, Step("row_counts", ""))
    /\ counts' = [i \in DOMAIN Tables |->
                    IF db[Tables[i]].exists THEN <<Len(db[Tables[i]].rows)>> ELSE <<>>]
    /\ pc' = "close"
    /\ UNCHANGED <<prog, err, exit, runs, faults, idx, files, dataframes, conn, db, disk,
                   dbBefore>>
    /\ UNCHANGED reporterVars

\* conn.close() and return 0
main_finish ==
    /\ prog = "loader" /\ pc = "close"
    /\ log' = Append(log, Step("close", ""))
    /\ conn' = "closed"
    /\ exit' = <<main_exit(err)>>
    /\ pc' = "done"
    /\ UNCHANGED <<prog, err, runs, faults, idx, files, dataframes, db, disk, dbBefore,
                   counts>>
    /\ UNCHANGED reporterVars

\* the loader is started again, against the database file the last run left
next_run ==
    /\ prog = "loader" /\ pc = "done"
    /\ runs < MaxRuns
    /\ runs' = runs + 1
    /\ pc' = "start"
    /\ err' = "none"
    /\ exit' = <<>>
    /\ log' = <<>>
    /\ idx' = 1
    /\ files' = <<>>
    /\ dataframes' = <<>>
    /\ conn' = "none"
    /\ db' = disk
    /\ dbBefore' = disk
    /\ counts' = <<>>
    /\ UNCHANGED <<prog, faults, disk>>
    /\ UNCHANGED reporterVars

LoaderNext ==
    \/ main_start
    \/ load_csv_files
    \/ create_database
    \/ insert_data_to_database
    \/ commit
    \/ rollback
    \/ print_row_counts
    \/ main_finish
    \/ next_run

\* --------------------------------------------------------------- reporter
\* A number of the query result is held in hundredths (1050 is 10.50); a
\* nullable number is <<>> (NULL / NaN) or <<hundredths>>.
Hundredths(units) == units * 100

\* the result set of the query: customers 1..n, of which 1..k have no order;
\* the rows come sorted by falling revenue and then rotated by r places.
\* nullOrders: the query yields NULL, not 0, as the order count of a customer
\* without orders.  perturb changes the aggregates of customer n when active.
QueryRow(i, n, k, nullOrders, perturb) ==
    IF i <= k
    THEN [customer_id |-> i, full_name |-> <<"A">>,
          total_orders |-> IF nullOrders THEN <<>> ELSE <<0>>,
          total_quantity |-> <<>>, total_revenue |-> <<>>]
    ELSE [customer_id |-> i, full_name |-> <<"A">>,
          total_orders |-> <<Hundredths(1 + (i % 2))>>,
          total_quantity |-> IF i = n /\ perturb = "negative" THEN <<Hundredths(-1)>>
                             ELSE IF i = n /\ perturb = "fraction" THEN <<250>>
                             ELSE <<Hundredths(i)>>,
          total_revenue |-> IF i = n /\ perturb = "refund" THEN <<-1050>>
                            ELSE <<1050 * i>>]

QueryResult(n, k, r, nullOrders, perturb) ==
    [j \in 1..n |-> QueryRow(n - ((j - 1 + r) % n), n, k, nullOrders, perturb)]

QueryResults ==
    {QueryResult(n, k, r, nullOrders, perturb) :
        n \in 0..MaxCustomers, k \in 0..MaxCustomers, r \in 0..MaxCustomers,
        nullOrders \in BOOLEAN, perturb \in {"none", "negative", "fraction", "refund"}}

\* no fillna: a missing aggregate stays missing
fillna_omitted(x) == x

\* Series.fillna(0) on one value
fillna(x) == IF x = <<>> THEN <<0>> ELSE x

\* Series.astype(int) on one value: truncation toward zero
astype_int(x) ==
    IF x = <<>> THEN x
    ELSE IF x[1] >= 0 THEN <<Hundredths(x[1] \div 100)>>
    ELSE <<-Hundredths((-x[1]) \div 100)>>

\* save_to_csv, lines 70-72: the frame after the three assignments
save_to_csv(df) ==
    [j \in DOMAIN df |->
        [df[j] EXCEPT !.total_orders = astype_int(fillna(df[j].total_orders)),
                      !.total_quantity = astype_int(fillna(df[j].total_quantity)),
                      !.total_revenue = fillna(df[j].total_revenue)]]

\* a comparison with NaN is false
Gt0(x) == x # <<>> /\ x[1] > 0
Eq0(x) == x # <<>> /\ x[1] = 0

IsActive(row) == Gt0(row.total_orders)
IsInactive(row) == Eq0(row.total_orders)

\* df[col]
Column(df, col) == [j \in DOMAIN df |-> df[j][col]]

\* Series.sum(): NaN is skipped
RECURSIVE Sum(_)
Sum(series) ==
    IF series = <<>> THEN 0
    ELSE (IF Head(series) = <<>> THEN 0 ELSE Head(series)[1]) + Sum(Tail(series))

\* active_customers.head(10)
head(df) == SubSeq(df, 1, IF Len(df) < TopN THEN Len(df) ELSE TopN)

\* the rows of the TOP 10 table: enumerate(top_10.iterrows(), 1)
top_10(active_customers) ==
    LET top == head(active_customers) IN
    [j \in DOMAIN top |->
        [rank |-> j, customer_id |-> top[j].customer_id,
         total_orders |-> top[j].total_orders, total_quantity |-> top[j].total_quantity,
         total_revenue |-> top[j].total_revenue]]

\* what print_formatted_table prints for df: each part is <<>> when not printed
print_formatted_table(df) ==
    LET active_customers == SelectSeq(df, IsActive)
        inactive_customers == SelectSeq(df, IsInactive)
    IN  IF Len(active_customers) = 0
        THEN [no_active |-> TRUE, table |-> <<>>, summary |-> <<>>, top |-> <<>>,
              inactive_summary |-> <<>>]
        ELSE [no_active |-> FALSE,
              table |-> active_customers,
              summary |-> << [total_active |-> Len(active_customers),
                              total_orders |-> Sum(Column(active_customers, "total_orders")),
                              total_quantity |-> Sum(Column(active_customers, "total_quantity")),
                              total_revenue |-> Sum(Column(active_customers, "total_revenue")),
                              \* the mean, as <<sum, count>>
                              avg_revenue |-> <<Sum(Column(active_customers, "total_revenue")),
                                                Len(active_customers)>>] >>,
              top |-> top_10(active_customers),
              inactive_summary |-> IF Len(inactive_customers) > 0
                                   THEN <<Len(inactive_customers)>> ELSE <<>>]

\* main, lines 192-201: the output folder, then the database file must exist
r_main_start ==
    /\ prog = "reporter" /\ pc = "r_start"
    /\ log' = Append(log, Step("start", ""))
    /\ \E db_exists \in BOOLEAN :
        IF db_exists
        THEN pc' = "r_read_sql" /\ UNCHANGED <<err, exit>>
        ELSE Raise("FileNotFoundError")
    /\ UNCHANGED <<prog, faults, conn>>
    /\ UNCHANGED loaderVars
    /\ UNCHANGED reporterVars

\* read_sql_query(sql_file)
read_sql_query ==
    /\ prog = "reporter" /\ pc = "r_read_sql"
    /\ log' = Append(log, Step("read_sql_query", ""))
    /\ \E sql_exists \in BOOLEAN :
        IF sql_exists
        THEN pc' = "r_connect" /\ UNCHANGED <<err, exit>>
        ELSE Raise("FileNotFoundError")
    /\ UNCHANGED <<prog, faults, conn>>
    /\ UNCHANGED loaderVars
    /\ UNCHANGED reporterVars

\* connect_to_database(db_path)
connect_to_database ==
    /\ prog = "reporter" /\ pc = "r_connect"
    /\ log' = Append(log, Step("connect_to_database", ""))
    /\ conn' = "open"
    /\ pc' = "r_execute"
    /\ UNCHANGED <<prog, err, exit, faults>>
    /\ UNCHANGED loaderVars
    /\ UNCHANGED reporterVars

\* execute_query(conn, query): the rows, or the query fails
execute_query ==
    /\ prog = "reporter" /\ pc = "r_execute"
    /\ log' = Append(log, Step("execute_query", ""))
    /\ \/ \E rows \in QueryResults :
            /\ results_df' = rows
            /\ query_rows' = rows
            /\ pc' = "r_save"
            /\ UNCHANGED <<err, exit>>
       \/ /\ Raise("DatabaseError")
          /\ UNCHANGED <<results_df, query_rows>>
    /\ UNCHANGED <<prog, faults, conn, out_csv, report>>
    /\ UNCHANGED loaderVars

\* save_to_csv(results_df, output_file): the frame is changed in place and
\* written, or the write fails
r_save_to_csv ==
    /\ prog = "reporter" /\ pc = "r_save"
    /\ log' = Append(log, Step("save_to_csv", ""))
    /\ results_df' = save_to_csv(results_df)
    /\ \E written \in BOOLEAN :
        IF written
        THEN /\ out_csv' = <<results_df'>>
             /\ pc' = "r_print"
             /\ UNCHANGED <<err, exit>>
        ELSE /\ Raise("OSError")
             /\ UNCHANGED out_csv
    /\ UNCHANGED <<prog, faults, conn, query_rows, report>>
    /\ UNCHANGED loaderVars

\* print_formatted_table(results_df)
r_print_formatted_table ==
    /\ prog = "reporter" /\ pc = "r_print"
    /\ log' = Append(log, Step("print_formatted_table", ""))
    /\ report' = <<print_formatted_table(results_df)>>
    /\ pc' = "r_close"
    /\ UNCHANGED <<prog, err, exit, faults, conn, results_df, query_rows, out_csv>>
    /\ UNCHANGED loaderVars

\* conn.close() and return 0
r_main_finish ==
    /\ prog = "reporter" /\ pc = "r_close"
    /\ log' = Append(log, Step("close", ""))
    /\ conn' = "closed"
    /\ exit' = <<main_exit(err)>>
    /\ pc' = "done"
    /\ UNCHANGED <<prog, err, faults>>
    /\ UNCHANGED loaderVars
    /\ UNCHANGED reporterVars

ReporterNext ==
    \/ r_main_start
    \/ read_sql_query
    \/ connect_to_database
    \/ execute_query
    \/ r_save_to_csv
    \/ r_print_formatted_table
    \/ r_main_finish

Next == LoaderNext \/ ReporterNext

Spec == Init /\ [][Next]_vars

\* ================================================================== claims
Loaded(i) == i \in DOMAIN dataframes
TableOf(i) == Tables[i]
LoaderDone == prog = "loader" /\ pc = "done"

\* the write of some table failed and the rollback has run
WriteFailed == LoaderDone /\ err = "DatabaseError"

\* file i lacks a required column, the names compared as the header spells them
LacksColumn(i) == files[i].readable /\ MissingColumns(files[i].df, csv_files(files[i].name)) # {}

\* file i lacks a required column, the names compared in lower case and trimmed
LacksColumnNormalized(i) ==
    /\ files[i].readable
    /\ Range(csv_files(files[i].name))
          \ {NormalizeName(c) : c \in Range(files[i].df.columns)} # {}

\* file i was rejected with the missing-column error
Rejected(i) == i = Len(files) /\ pc = "done" /\ err = "ValueError"

\* C1: if the write of any table fails, then after the rollback every table
\* of the database file has exactly the contents it had before the run.
C1_AllOrNothing == WriteFailed => (disk = dbBefore /\ db = dbBefore)

\* C2: a CSV that lacks a required column ends the run at once with the
\* missing-column error and exit code 1, wherever the file stands among the
\* five: no connection is opened and no table is created, replaced or changed.
C2_MissingColumnAborts ==
    prog = "loader" =>
        \A i \in DOMAIN files :
            LacksColumn(i) =>
                /\ Rejected(i)
                /\ exit = <<1>>
                /\ ~Loaded(i)
                /\ conn = "none"
                /\ db = dbBefore
                /\ disk = dbBefore

\* a run rejected at its third file or later, against a database that an
\* earlier run has filled
C2_Witness ==
    /\ prog = "loader" /\ runs = 2
    /\ Len(files) >= 3 /\ LacksColumn(Len(files))
    /\ \E t \in TableSet : dbBefore[t].exists

\* C3: a CSV is rejected exactly when it lacks a required column with the
\* names compared case-insensitively and trimmed; a header such as
\* ' Customer_ID ' passes validation and the file is loaded.
C3_CaseInsensitiveValidation ==
    prog = "loader" =>
        \A i \in DOMAIN files :
            files[i].readable => (Rejected(i) <=> LacksColumnNormalized(i))

\* C4: after a successful run that is not the first against the database,
\* every one of the five tables holds exactly the rows of this run's CSV (as
\* many rows as the file has), whatever the table held before.
C4_SecondRunReplaces ==
    (LoaderDone /\ runs >= 2 /\ exit = <<0>>) =>
        \A i \in DOMAIN Tables :
            /\ Loaded(i)
            /\ disk[TableOf(i)].exists
            /\ disk[TableOf(i)].columns = dataframes[i].columns
            /\ disk[TableOf(i)].rows = dataframes[i].rows
            /\ Len(disk[TableOf(i)].rows) = Len(files[i].df.rows)

\* a successful second run over a table that held another number of rows
C4_Witness ==
    /\ LoaderDone /\ runs = 2 /\ exit = <<0>>
    /\ \E t \in TableSet :
        /\ dbBefore[t].exists
        /\ Len(dbBefore[t].rows) > 0
        /\ Len(dbBefore[t].rows) # Len(disk[t].rows)

\* ------------------------------------------------- the reporter's claims
Printed == prog = "reporter" /\ report # <<>>
Saved == prog = "reporter" /\ out_csv # <<>>

\* the positions of the customers without orders in the result set
ZeroOrder == {j \in DOMAIN results_df : Eq0(results_df[j].total_orders)}

\* the positions of the customers with orders in the result set
WithOrders == {j \in DOMAIN results_df : Gt0(results_df[j].total_orders)}

Min(a, b) == IF a < b THEN a ELSE b

\* C5: every customer with zero orders is counted in the printed inactive
\* summary and is absent from the top-10 ranking, also when no customer of
\* the result set has an order.
C5_InactiveCounted ==
    Printed =>
        /\ ZeroOrder # {} => report[1].inactive_summary = <<Cardinality(ZeroOrder)>>
        /\ \A j \in ZeroOrder : \A e \in Range(report[1].top) :
                e.customer_id # results_df[j].customer_id

\* C6: the top-10 section lists the ten active customers of highest
\* total_revenue (all of them when fewer are active), ranked 1..n by falling
\* total_revenue, in whatever order the query returned its rows.
C6_TopTenByRevenue ==
    Printed =>
        LET top == report[1].top
            n == Min(TopN, Cardinality(WithOrders))
            listed == {e.customer_id : e \in Range(top)}
        IN  /\ Len(top) = n
            /\ \A r \in DOMAIN top : top[r].rank = r
            /\ \A r \in DOMAIN top :
                  r < Len(top) => top[r].total_revenue[1] >= top[r + 1].total_revenue[1]
            /\ \A j \in WithOrders : \A e \in Range(top) :
                  results_df[j].customer_id \notin listed
                      => results_df[j].total_revenue[1] <= e.total_revenue[1]

IsWhole(x) == x # <<>> /\ x[1] % 100 = 0
NonNegative(x) == x # <<>> /\ x[1] >= 0
NullOrNonNegative(x) == x = <<>> \/ x[1] >= 0

\* C7: the output CSV has one record per row of the query, and in every
\* record total_orders and total_quantity are non-negative integers and
\* total_revenue is a non-negative number, none of them null.
C7_NonNegativeOutput ==
    Saved =>
        /\ Len(out_csv[1]) = Len(query_rows)
        /\ \A j \in DOMAIN out_csv[1] :
            /\ IsWhole(out_csv[1][j].total_orders) /\ NonNegative(out_csv[1][j].total_orders)
            /\ IsWhole(out_csv[1][j].total_quantity) /\ NonNegative(out_csv[1][j].total_quantity)
            /\ NonNegative(out_csv[1][j].total_revenue)

\* C7 as amended: one record per row of the query, for the same customer;
\* total_orders and total_quantity are integers and total_revenue a number,
\* none of them null; a missing aggregate is zero; and each of the three is
\* non-negative wherever the query's value was missing or non-negative.
C7_NoNullOutput ==
    Saved =>
        /\ Len(out_csv[1]) = Len(query_rows)
        /\ \A j \in DOMAIN out_csv[1] :
            LET o == out_csv[1][j]
                q == query_rows[j]
            IN  /\ o.customer_id = q.customer_id
                /\ IsWhole(o.total_orders) /\ IsWhole(o.total_quantity)
                /\ o.total_revenue # <<>>
                /\ \A col \in {"total_orders", "total_quantity", "total_revenue"} :
                    /\ q[col] = <<>> => o[col] = <<0>>
                    /\ NullOrNonNegative(q[col]) => NonNegative(o[col])
                /\ q.total_revenue # <<>> => o.total_revenue = q.total_revenue

\* an output that holds a customer whose aggregates were missing, and a
\* total_quantity with a fraction that was cut off
C7_Witness ==
    /\ Saved
    /\ \E j \in DOMAIN query_rows : query_rows[j].total_quantity = <<>>
    /\ \E j \in DOMAIN query_rows :
          /\ query_rows[j].total_quantity # <<>>
          /\ ~IsWhole(query_rows[j].total_quantity)

\* ------------------------------------------------------------ exit codes
IsPrefix(s, t) == Len(s) <= Len(t) /\ SubSeq(t, 1, Len(s)) = s

\* the steps of a run of the loader that completes
LoaderSteps ==
    <<Step("start", "")>>
    \o [i \in DOMAIN Tables |-> Step("load", Tables[i])]
    \o <<Step("create_database", "")>>
    \o [i \in DOMAIN Tables |-> Step("insert", Tables[i])]
    \o <<Step("commit", ""), Step("row_counts", ""), Step("close", "")>>

\* the steps of a run of the reporter that completes
ReporterSteps ==
    <<Step("start", ""), Step("read_sql_query", ""), Step("connect_to_database", ""),
      Step("execute_query", ""), Step("save_to_csv", ""), Step("print_formatted_table", ""),
      Step("close", "")>>

AllSteps == IF prog = "loader" THEN LoaderSteps ELSE ReporterSteps

\* the log without the rollback that follows a failed write
StepsTaken ==
    IF log # <<>> /\ log[Len(log)] = Step("rollback", "")
    THEN SubSeq(log, 1, Len(log) - 1) ELSE log

\* C8: main returns 0 exactly when the run completed every step, and 1 when
\* an error ended it; the steps taken are then the steps up to the failing
\* one, each taken once, and none after it.
C8_ExitCodes ==
    /\ (pc = "done") <=> (exit # <<>>)
    /\ pc = "done" =>
        /\ exit \in {<<0>>, <<1>>}
        /\ exit = <<0>> <=> (err = "none" /\ log = AllSteps)
        /\ exit = <<1>> <=> err # "none"
        /\ IsPrefix(StepsTaken, AllSteps)
        /\ err # "none" => Len(StepsTaken) < Len(AllSteps)
        /\ (log # StepsTaken) <=> (err = "DatabaseError" /\ prog = "loader")

\* a run of the loader ended by the missing-column error
C8_Witness == LoaderDone /\ err = "ValueError" /\ exit = <<1>> /\ Len(log) >= 3

\* -------------------------------------------------------------- coercion
\* the name of column c of file i once normalized
ColumnName(i, c) == NormalizeName(files[i].df.columns[c])

\* column c of file i is one the loader converts with to_datetime / to_numeric
\* (a column whose normalized name occurs twice is left unconverted)
Unique(i, c) ==
    \A c2 \in DOMAIN files[i].df.columns : ColumnName(i, c2) = ColumnName(i, c) => c2 = c
DateColumn(i, c) == Unique(i, c) /\ ColumnName(i, c) \in Range(date_columns(TableOf(i)))
NumericColumn(i, c) ==
    /\ Unique(i, c) /\ ~DateColumn(i, c)
    /\ ColumnName(i, c) \in Range(numeric_mapping(TableOf(i)))

\* the text of a cell parses as a date / as a number
ParsesAsDate(x) == Len(Strip(x.val)) = 1 /\ Strip(x.val)[1] \in ValidDates
ParsesAsNumber(x) == Len(Strip(x.val)) = 1 /\ Strip(x.val)[1] \in Numerals

\* the run met no error other than values that do not parse
NoOtherFailure ==
    /\ Len(files) = Len(Tables)
    /\ \A i \in DOMAIN files : files[i].readable /\ ~LacksColumn(i)
    /\ err # "DatabaseError"

\* C9: a value that does not parse in a date column or a numeric column
\* becomes null in that cell only: the file is loaded with all its rows, a
\* value that parses is kept, every other cell keeps its (trimmed) text, and
\* a run that meets no other failure writes all five tables and exits 0.
C9_CoerceToNull ==
    prog = "loader" =>
        /\ \A i \in DOMAIN files :
              (files[i].readable /\ ~LacksColumn(i)) => Loaded(i)
        /\ \A i \in DOMAIN dataframes :
            /\ Len(dataframes[i].rows) = Len(files[i].df.rows)
            /\ \A r \in DOMAIN files[i].df.rows : \A c \in DOMAIN files[i].df.columns :
                LET x == files[i].df.rows[r][c]
                    y == dataframes[i].rows[r][c]
                IN  IF DateColumn(i, c)
                    THEN IF ParsesAsDate(x) THEN y.type = "date" /\ y.val = Strip(x.val)
                         ELSE y = Null
                    ELSE IF NumericColumn(i, c)
                    THEN IF ParsesAsNumber(x) THEN y.type = "num" /\ y.val = Strip(x.val)
                         ELSE y = Null
                    ELSE y.type = x.type /\ y.val = Strip(x.val)
        /\ (pc = "done" /\ NoOtherFailure) =>
              /\ exit = <<0>>
              /\ \A i \in DOMAIN Tables :
                    disk[TableOf(i)].exists /\ disk[TableOf(i)].rows = dataframes[i].rows

\* a run that exits 0 after reading a file with an unparseable date
C9_Witness ==
    /\ LoaderDone /\ exit = <<0>>
    /\ \E i \in DOMAIN files : \E r \in DOMAIN files[i].df.rows :
        \E c \in DOMAIN files[i].df.columns :
            /\ DateColumn(i, c) /\ ~ParsesAsDate(files[i].df.rows[r][c])
            /\ dataframes[i].rows[r][c] = Null
            /\ disk[TableOf(i)].rows[r][c] = Null

\* row r of file i holds an unparseable value in the table's identifier column
BadIdRow(i, r) ==
    \E c \in DOMAIN files[i].df.columns :
        /\ ColumnName(i, c) = IdColumn(TableOf(i))
        /\ ~ParsesAsNumber(files[i].df.rows[r][c])

HasBadId(i) == files[i].readable /\ \E r \in DOMAIN files[i].df.rows : BadIdRow(i, r)

\* C10: a CSV row whose identifier does not parse is dropped: after a
\* successful run the table has fewer rows than the CSV.
C10_BadIdRowDropped ==
    (LoaderDone /\ exit = <<0>>) =>
        \A i \in DOMAIN files :
            HasBadId(i) => Len(disk[TableOf(i)].rows) < Len(files[i].df.rows)

\* C10 as amended: a CSV row whose identifier does not parse is neither
\* rejected nor dropped: after a successful run the table has as many rows
\* as the CSV, and the row is there with a null identifier and its other
\* cells as loaded.
C10_BadIdRowKept ==
    (LoaderDone /\ exit = <<0>>) =>
        \A i \in DOMAIN files :
            /\ Len(disk[TableOf(i)].rows) = Len(files[i].df.rows)
            /\ \A r \in DOMAIN files[i].df.rows :
                BadIdRow(i, r) =>
                    \A c \in DOMAIN files[i].df.columns :
                        IF ColumnName(i, c) = IdColumn(TableOf(i))
                        THEN disk[TableOf(i)].rows[r][c] = Null
                        ELSE /\ disk[TableOf(i)].rows[r][c] # Null
                             /\ disk[TableOf(i)].rows[r][c].val = Strip(files[i].df.rows[r][c].val)

\* a successful run over a file with an unparseable identifier
C10_Witness == LoaderDone /\ exit = <<0>> /\ \E i \in DOMAIN files : HasBadId(i)

====
